---- MODULE Spec2Model ----
(***************************************************************************)
(* Model of src/Processors/QueryPlan/JoinStep.{h,cpp}: the three query     *)
(* plan steps JoinStep, FilledJoinStep and SortForJoinStep.                *)
(*                                                                         *)
(* Each step is an object with its own fields; the three objects do not    *)
(* share mutable state, so each has its own specification (SpecJoin,       *)
(* SpecFilled, SpecSort) in which the other two objects stay idle.         *)
(***************************************************************************)
EXTENDS Integers, Sequences, FiniteSets

(* ------------------------------ bounds --------------------------------- *)
MaxStreams == 3      \* largest max_streams / branch count of a pipeline
MaxPipelines == 3    \* largest pipelines.size() handed to updatePipeline
MaxIdx == 2          \* largest idx handed to updateInputStream
MaxKeys == 3         \* longest key-name list the operator returns
MaxCalls == 3        \* most SortForJoinStep::transformPipeline calls

(* ------------------------------ values --------------------------------- *)
Names == {"a", "b"}
Headers == {<<"x">>, <<"y">>, <<"x", "y">>}
YShaped == "YShaped"
BuildProbe == "BuildProbe"
JoinPipelineTypes == {YShaped, BuildProbe}
Sides == {"Left", "Right"}
TotalsBranch == 0    \* branch id of the totals stream; data streams are 1..n

RECURSIVE SeqsUpTo(_, _)
SeqsUpTo(S, n) ==
    IF n = 0 THEN {<<>>}
    ELSE LET shorter == SeqsUpTo(S, n - 1)
         IN shorter \cup {Append(s, x) : s \in {t \in shorter : Len(t) = n - 1}, x \in S}

Range(s) == {s[i] : i \in DOMAIN s}

VARIABLES
    \* JoinStep
    join_pipelineType,        \* join->pipelineType()
    max_streams,
    keep_left_read_in_order,
    input_streams,            \* <<left header, right header>>
    output_stream,            \* output_stream->header
    js_last,                  \* outcome of the most recent JoinStep call
    merged,                   \* pipeline returned by the last updatePipeline (<<>> = none)
    pushdown_answers,         \* values allowPushDownToRight has returned
    primitives_used,          \* merge primitives updatePipeline has called
    \* FilledJoinStep
    fj_join_totals,           \* join->getTotals() is non-null
    fj_input,                 \* the pipeline as handed to transformPipeline (<<>> = none)
    pipeline,                 \* the pipeline after transformPipeline (<<>> = none)
    transforms,               \* branch id -> JoiningTransform constructor arguments
    finish_counter,           \* value of the shared FinishCounter
    finished,                 \* branches whose input is exhausted
    emitted,                  \* branches that emitted the trailing unmatched rows
    \* SortForJoinStep
    key_names,                \* side -> sorting_join->getKeyNames(side)
    prefix_sort,              \* side -> sorting_join->getPrefixSortDesctiption(side)
    join_side,
    sorting_step,             \* std::unique_ptr<SortingStep> (<<>> = null)
    step_description,
    sf_calls,                 \* number of transformPipeline calls made
    sf_threw,                 \* the most recent transformPipeline call threw
    keys_read,                \* number of getKeyNames calls made
    sf_pipeline               \* number of sorting steps applied to given pipelines

jsVars == <<join_pipelineType, max_streams, keep_left_read_in_order, input_streams,
            output_stream, js_last, merged, pushdown_answers, primitives_used>>
fjVars == <<fj_join_totals, fj_input, pipeline, transforms, finish_counter, finished, emitted>>
sfVars == <<key_names, prefix_sort, join_side, sorting_step, step_description,
            sf_calls, sf_threw, keys_read, sf_pipeline>>
vars == <<jsVars, fjVars, sfVars>>

(* ============================== JoinStep =============================== *)

\* JoiningTransform::transformHeader: the operator extends the left header
\* with the columns it appends.
transformHeader(header, join) == header \o <<"joined", join>>

NoCall == [op |-> "none", arg |-> 0, threw |-> FALSE, consulted |-> FALSE, produced |-> FALSE]

JoinStepInit ==
    /\ join_pipelineType \in JoinPipelineTypes
    /\ max_streams \in 1..MaxStreams
    /\ keep_left_read_in_order \in BOOLEAN
    /\ \E l \in Headers, r \in Headers :
          /\ input_streams = <<l, r>>
          /\ output_stream = transformHeader(l, join_pipelineType)
    /\ js_last = NoCall
    /\ merged = <<>>
    /\ pushdown_answers = {}
    /\ primitives_used = {}

JoinStepIdle ==
    /\ join_pipelineType = BuildProbe
    /\ max_streams = 1
    /\ keep_left_read_in_order = FALSE
    /\ input_streams = <<<<"x">>, <<"x">>>>
    /\ output_stream = transformHeader(<<"x">>, BuildProbe)
    /\ js_last = NoCall
    /\ merged = <<>>
    /\ pushdown_answers = {}
    /\ primitives_used = {}

\* QueryPipelineBuilder::resize(n): the pipeline has n streams afterwards.
resize(num_streams, n) == n

\* QueryPipelineBuilder::joinPipelinesYShaped: stream counts the merged
\* pipeline may have before it is resized.
joinPipelinesYShaped(ln, rn) == 1..(ln + rn)

\* QueryPipelineBuilder::joinPipelinesRightLeft: honours the maximum.
joinPipelinesRightLeft(ln, rn, max) == 1..max

WrongInputCount_lt(size) == size < 2
WrongInputCount(size) == size # 2

JoinYShaped_noResize(ln, rn) ==
    \E m \in joinPipelinesYShaped(ln, rn) :
        merged' = <<[primitive |-> YShaped, num_streams |-> m, keep_order |-> FALSE,
                     left_streams |-> ln, right_streams |-> rn]>>
JoinYShaped(ln, rn) ==
    \E m \in joinPipelinesYShaped(ln, rn) :
        merged' = <<[primitive |-> YShaped, num_streams |-> resize(m, max_streams),
                     keep_order |-> FALSE, left_streams |-> ln, right_streams |-> rn]>>

JoinRightLeft(ln, rn) ==
    \E m \in joinPipelinesRightLeft(ln, rn, max_streams) :
        merged' = <<[primitive |-> "RightLeft", num_streams |-> m,
                     keep_order |-> keep_left_read_in_order,
                     left_streams |-> ln, right_streams |-> rn]>>

IsYShaped(type) == type = YShaped

updatePipeline(size, ln, rn) ==
    /\ IF WrongInputCount(size)
       THEN /\ js_last' = [op |-> "updatePipeline", arg |-> size, threw |-> TRUE,
                           consulted |-> FALSE, produced |-> FALSE]
            /\ UNCHANGED <<merged, primitives_used>>
       ELSE /\ js_last' = [op |-> "updatePipeline", arg |-> size, threw |-> FALSE,
                           consulted |-> TRUE, produced |-> TRUE]
            /\ IF IsYShaped(join_pipelineType)
               THEN /\ JoinYShaped(ln, rn)
                    /\ primitives_used' = primitives_used \cup {YShaped}
               ELSE /\ JoinRightLeft(ln, rn)
                    /\ primitives_used' = primitives_used \cup {"RightLeft"}
    /\ UNCHANGED <<join_pipelineType, max_streams, keep_left_read_in_order,
                   input_streams, output_stream, pushdown_answers>>

allowPushDownToRight_negated == join_pipelineType # YShaped
allowPushDownToRight == join_pipelineType = YShaped

CallAllowPushDownToRight ==
    /\ pushdown_answers' = pushdown_answers \cup {allowPushDownToRight}
    /\ js_last' = [op |-> "allowPushDownToRight", arg |-> 0, threw |-> FALSE,
                   consulted |-> TRUE, produced |-> FALSE]
    /\ UNCHANGED <<join_pipelineType, max_streams, keep_left_read_in_order,
                   input_streams, output_stream, merged, primitives_used>>

updateInputStream_stale(new_input_stream, idx) ==
    /\ IF idx = 0
       THEN /\ input_streams' = <<new_input_stream, input_streams[2]>>
            /\ UNCHANGED output_stream
       ELSE /\ input_streams' = <<input_streams[1], new_input_stream>>
            /\ UNCHANGED output_stream
    /\ js_last' = [op |-> "updateInputStream", arg |-> idx, threw |-> FALSE,
                   consulted |-> FALSE, produced |-> FALSE]
    /\ UNCHANGED <<join_pipelineType, max_streams, keep_left_read_in_order,
                   merged, pushdown_answers, primitives_used>>
updateInputStream(new_input_stream, idx) ==
    /\ IF idx = 0
       THEN /\ input_streams' = <<new_input_stream, input_streams[2]>>
            /\ output_stream' = transformHeader(new_input_stream, join_pipelineType)
       ELSE /\ input_streams' = <<input_streams[1], new_input_stream>>
            /\ UNCHANGED output_stream
    /\ js_last' = [op |-> "updateInputStream", arg |-> idx, threw |-> FALSE,
                   consulted |-> FALSE, produced |-> FALSE]
    /\ UNCHANGED <<join_pipelineType, max_streams, keep_left_read_in_order,
                   merged, pushdown_answers, primitives_used>>

UpdatePipelineCall ==
    \E size \in 0..MaxPipelines, ln \in 1..MaxStreams, rn \in 1..MaxStreams :
        updatePipeline(size, ln, rn)

UpdateInputStreamCall ==
    \E h \in Headers, idx \in 0..MaxIdx : updateInputStream(h, idx)

NextJoin ==
    \/ UpdatePipelineCall /\ UNCHANGED <<fjVars, sfVars>>
    \/ CallAllowPushDownToRight /\ UNCHANGED <<fjVars, sfVars>>
    \/ UpdateInputStreamCall /\ UNCHANGED <<fjVars, sfVars>>

(* =========================== FilledJoinStep ============================ *)

FilledJoinInit ==
    /\ fj_join_totals \in BOOLEAN
    /\ fj_input = <<>>
    /\ pipeline = <<>>
    /\ transforms = <<>>
    /\ finish_counter = 0
    /\ finished = {}
    /\ emitted = {}

FilledJoinIdle ==
    /\ fj_join_totals = FALSE
    /\ fj_input = <<>>
    /\ pipeline = <<>>
    /\ transforms = <<>>
    /\ finish_counter = 0
    /\ finished = {}
    /\ emitted = {}

\* QueryPipelineBuilder::hasTotals / addDefaultTotals / getNumStreams.
hasTotals(p) == p.has_totals
addDefaultTotals(p) ==
    [p EXCEPT !.has_totals = TRUE, !.default_totals_branches = @ + 1]
getNumStreams(p) == p.num_streams

\* The branches addSimpleTransform visits: every data stream and the
\* totals stream when there is one.
Branches(p) == (1..p.num_streams) \cup (IF p.has_totals THEN {TotalsBranch} ELSE {})

\* bool default_totals: line 137
NeedDefaultTotals_ignoreUpstream(p) == fj_join_totals
NeedDefaultTotals(p) == ~hasTotals(p) /\ fj_join_totals

\* FinishCounter(pipeline.getNumStreams()): line 143
CounterSeed_withTotals(p) == Cardinality(Branches(p))
CounterSeed(p) == getNumStreams(p)

\* auto counter = on_totals ? nullptr : finish_counter: line 148
CounterFor_all(on_totals) == "finish_counter"
CounterFor(on_totals) == IF on_totals THEN "nullptr" ELSE "finish_counter"

FilledTransformPipeline(p) ==
    LET default_totals == NeedDefaultTotals(p)
        q == IF default_totals THEN addDefaultTotals(p) ELSE p
    IN  /\ fj_input' = <<p>>
        /\ pipeline' = <<q>>
        /\ finish_counter' = CounterSeed(q)
        /\ transforms' = [b \in Branches(q) |->
                            [on_totals |-> b = TotalsBranch,
                             default_totals |-> default_totals,
                             counter |-> CounterFor(b = TotalsBranch)]]
        /\ finished' = {}
        /\ emitted' = {}
        /\ UNCHANGED fj_join_totals

FilledTransformPipelineCall ==
    \E n \in 1..MaxStreams, t \in BOOLEAN :
        FilledTransformPipeline([num_streams |-> n, has_totals |-> t,
                                 default_totals_branches |-> 0])

\* JoiningTransform on branch b exhausts its input: a transform holding the
\* counter decrements it and, on observing zero, emits the trailing rows.
InputExhausted(b) ==
    /\ b \in DOMAIN transforms
    /\ b \notin finished
    /\ finished' = finished \cup {b}
    /\ IF transforms[b].counter = "finish_counter"
       THEN /\ finish_counter' = finish_counter - 1
            /\ emitted' = IF finish_counter - 1 = 0 THEN emitted \cup {b} ELSE emitted
       ELSE UNCHANGED <<finish_counter, emitted>>
    /\ UNCHANGED <<fj_join_totals, fj_input, pipeline, transforms>>

InputExhaustedStep == \E b \in 0..MaxStreams : InputExhausted(b)

NextFilled ==
    \/ FilledTransformPipelineCall /\ UNCHANGED <<jsVars, sfVars>>
    \/ InputExhaustedStep /\ UNCHANGED <<jsVars, sfVars>>

(* =========================== SortForJoinStep =========================== *)

KeyLists == SeqsUpTo(Names, MaxKeys)
PrefixLists == {<<>>, <<"a">>}

SortForJoinInit ==
    /\ key_names \in [Sides -> KeyLists]
    /\ prefix_sort \in [Sides -> PrefixLists]
    /\ join_side \in Sides
    /\ sorting_step = <<>>
    /\ step_description = ""
    /\ sf_calls = 0
    /\ sf_threw = FALSE
    /\ keys_read = 0
    /\ sf_pipeline = 0

SortForJoinIdle ==
    /\ key_names = [s \in Sides |-> <<>>]
    /\ prefix_sort = [s \in Sides |-> <<>>]
    /\ join_side = "Left"
    /\ sorting_step = <<>>
    /\ step_description = ""
    /\ sf_calls = 0
    /\ sf_threw = FALSE
    /\ keys_read = 0
    /\ sf_pipeline = 0

\* The loop of getSortDescription: i is the position of the next key,
\* used_keys the NameSet, sort_description the result so far.
RECURSIVE getSortDescriptionLoop(_, _, _, _)
getSortDescriptionLoop(keys, i, used_keys, sort_description) ==
    IF i > Len(keys) THEN sort_description
    ELSE IF keys[i] \in used_keys
         THEN getSortDescriptionLoop(keys, i + 1, used_keys, sort_description)
         ELSE getSortDescriptionLoop(keys, i + 1, used_keys \cup {keys[i]},
                                     Append(sort_description, keys[i]))

getSortDescription_keepAll(keys) == keys
getSortDescription(keys) == getSortDescriptionLoop(keys, 1, {}, <<>>)

AlreadyBuilt_never == FALSE
AlreadyBuilt == sorting_step # <<>>

SortTransformPipeline ==
    /\ sf_calls < MaxCalls
    /\ sf_calls' = sf_calls + 1
    /\ IF AlreadyBuilt
       THEN /\ sf_threw' = TRUE
            /\ UNCHANGED <<sorting_step, step_description, keys_read, sf_pipeline>>
       ELSE LET sort_description == getSortDescription(key_names[join_side])
                prefix_sort_description == prefix_sort[join_side]
            IN  /\ sf_threw' = FALSE
                /\ keys_read' = keys_read + 1
                /\ sorting_step' =
                     <<[description |-> sort_description,
                        limit |-> 0,
                        type |-> IF prefix_sort_description # <<>>
                                 THEN "FinishSorting" ELSE "Full",
                        prefix_description |-> prefix_sort_description,
                        step_description |-> "Sorting for JOIN"]>>
                /\ step_description' = join_side
                /\ sf_pipeline' = sf_pipeline + 1
    /\ UNCHANGED <<key_names, prefix_sort, join_side>>

NextSort ==
    SortTransformPipeline /\ UNCHANGED <<jsVars, fjVars>>

(* =========================== specifications ============================ *)

InitJoin == JoinStepInit /\ FilledJoinIdle /\ SortForJoinIdle
InitFilled == JoinStepIdle /\ FilledJoinInit /\ SortForJoinIdle
InitSort == JoinStepIdle /\ FilledJoinIdle /\ SortForJoinInit

SpecJoin == InitJoin /\ [][NextJoin]_vars
SpecFilled == InitFilled /\ [][NextFilled]_vars
SpecSort == InitSort /\ [][NextSort]_vars

(* ============================== properties ============================= *)

DataBranches == IF pipeline = <<>> THEN {} ELSE 1..pipeline[1].num_streams

\* C1: over N >= 1 non-totals branches, in every order of the branches'
\* input-exhaustion events, at most one branch observes the counter reach
\* zero and emits the trailing unmatched rows, only a non-totals branch
\* does, and once all N have finished exactly one has.
C1_ExactlyOneEmitter ==
    /\ Cardinality(emitted) <= 1
    /\ emitted \subseteq DataBranches
    /\ (pipeline # <<>> /\ DataBranches \subseteq finished) => Cardinality(emitted) = 1

C1_Witness ==
    /\ pipeline # <<>>
    /\ Cardinality(DataBranches) >= 2
    /\ TotalsBranch \in DOMAIN transforms
    /\ DataBranches \subseteq finished
    /\ Cardinality(emitted) = 1

\* C2: an updateInputStream call with an index outside {0,1} is rejected
\* with the internal-consistency failure.
C2_OutOfRangeRejected ==
    (js_last.op = "updateInputStream" /\ js_last.arg \notin {0, 1}) => js_last.threw

\* C3: across updateInputStream calls the output schema is the operator's
\* projection of the current left input; index 0 recomputes it and keeps the
\* right input, index 1 keeps both the left input and the output schema.
C3_OutputFollowsLeft ==
    [][ /\ output_stream = transformHeader(input_streams[1], join_pipelineType)
        /\ output_stream' = transformHeader(input_streams'[1], join_pipelineType')
        /\ (js_last'.op = "updateInputStream" /\ js_last'.arg = 0)
              => input_streams'[2] = input_streams[2]
        /\ (js_last'.op = "updateInputStream" /\ js_last'.arg = 1)
              => /\ input_streams'[1] = input_streams[1]
                 /\ output_stream' = output_stream ]_vars

C3_Witness ==
    /\ js_last.op = "updateInputStream"
    /\ js_last.arg = 0
    /\ input_streams[1] = <<"x", "y">>
    /\ input_streams[2] = <<"y">>
    /\ output_stream = transformHeader(<<"x", "y">>, join_pipelineType)

\* C4: with a YShaped operator the pipeline updatePipeline returns has
\* exactly max_streams branches, whatever the inputs' branch counts.
C4_YShapedHasMaxStreams ==
    \A i \in DOMAIN merged :
        merged[i].primitive = YShaped => merged[i].num_streams = max_streams

C4_Witness ==
    /\ merged # <<>>
    /\ merged[1].primitive = YShaped
    /\ merged[1].left_streams # max_streams
    /\ merged[1].right_streams # max_streams
    /\ merged[1].left_streams + merged[1].right_streams # max_streams
    /\ merged[1].num_streams = max_streams

\* C5: every answer of allowPushDownToRight is true exactly for a YShaped
\* operator, and agrees with every merge primitive updatePipeline has used
\* for the same step.
C5_PushDownAgreesWithShape ==
    /\ \A r \in pushdown_answers : r = (join_pipelineType = YShaped)
    /\ \A p \in primitives_used : (p = YShaped) = (join_pipelineType = YShaped)
    /\ \A r \in pushdown_answers, p \in primitives_used : r = (p = YShaped)

C5_Witness ==
    /\ pushdown_answers = {TRUE}
    /\ primitives_used = {YShaped}

\* C6: updatePipeline throws exactly when it is handed a number of
\* pipelines other than two, and then has neither consulted the operator's
\* shape nor produced a pipeline.
C6_ExactlyTwoPipelines ==
    js_last.op = "updatePipeline" =>
        /\ js_last.threw = (js_last.arg # 2)
        /\ js_last.threw => (~js_last.consulted /\ ~js_last.produced)
        /\ ~js_last.threw => js_last.produced

C6_Witness ==
    /\ js_last.op = "updatePipeline"
    /\ js_last.arg = 3
    /\ js_last.threw
    /\ ~js_last.consulted

\* C7: the first transformPipeline call builds the sort sub-step; every
\* later call throws, reads no keys, builds nothing and adds nothing to
\* the pipeline.
C7_SingleUse ==
    /\ sf_calls = 0 => (sorting_step = <<>> /\ keys_read = 0 /\ sf_pipeline = 0)
    /\ sf_calls >= 1 => (Len(sorting_step) = 1 /\ keys_read = 1 /\ sf_pipeline = 1)
    /\ sf_threw = (sf_calls >= 2)

C7_Witness ==
    /\ sf_calls >= 2
    /\ sf_threw
    /\ Len(sorting_step) = 1
    /\ sf_pipeline = 1

\* C8: a default totals branch is added exactly when the incoming pipeline
\* has no totals and the operator declares totals, then exactly one; every
\* transform's default_totals flag is true in exactly that case.
C8_DefaultTotals ==
    pipeline # <<>> =>
        LET synthesized == ~fj_input[1].has_totals /\ fj_join_totals
        IN  /\ pipeline[1].default_totals_branches = (IF synthesized THEN 1 ELSE 0)
            /\ pipeline[1].has_totals = (fj_input[1].has_totals \/ synthesized)
            /\ pipeline[1].num_streams = fj_input[1].num_streams
            /\ \A b \in DOMAIN transforms : transforms[b].default_totals = synthesized

C8_Witness ==
    /\ pipeline # <<>>
    /\ ~fj_input[1].has_totals
    /\ fj_join_totals
    /\ pipeline[1].default_totals_branches = 1
    /\ \A b \in DOMAIN transforms : transforms[b].default_totals

FirstIndex(s, x) == CHOOSE i \in DOMAIN s : s[i] = x /\ \A j \in 1..(i - 1) : s[j] # x

\* C9: the realized sort key list holds each distinct key name of the side
\* exactly once, in order of first occurrence; [a, a, b] gives [a, b].
C9_DedupFirstOccurrence ==
    sorting_step # <<>> =>
        LET keys == key_names[join_side]
            d == sorting_step[1].description
        IN  /\ Range(d) = Range(keys)
            /\ \A i, j \in DOMAIN d :
                  i < j => /\ d[i] # d[j]
                           /\ FirstIndex(keys, d[i]) < FirstIndex(keys, d[j])
            /\ keys = <<"a", "a", "b">> => d = <<"a", "b">>

C9_Witness ==
    /\ sorting_step # <<>>
    /\ key_names[join_side] = <<"a", "a", "b">>
    /\ sorting_step[1].description = <<"a", "b">>

\* C10: the counter is held by every non-totals transform and by no totals
\* transform, its value is the number of non-totals branches less those
\* that have finished, it is never negative, and it is zero only once
\* every non-totals branch has finished.
C10_CounterMatchesBranches ==
    pipeline # <<>> =>
        /\ \A b \in DOMAIN transforms :
              transforms[b].counter =
                 (IF b = TotalsBranch THEN "nullptr" ELSE "finish_counter")
        /\ finish_counter = pipeline[1].num_streams - Cardinality(finished \ {TotalsBranch})
        /\ finish_counter >= 0
        /\ finish_counter = 0 => DataBranches \subseteq finished

C10_Witness ==
    /\ pipeline # <<>>
    /\ pipeline[1].default_totals_branches = 1
    /\ pipeline[1].num_streams >= 2
    /\ TotalsBranch \in finished
    /\ finish_counter = 0

====
